---- MODULE Spec2Model ----
(***************************************************************************)
(* AGrid2DGridPhysics (Fortran update_dwinds_phys): the A-grid to D-grid   *)
(* wind-tendency update of fv3gfs/physics/stencils/update_dwind_phys.py.   *)
(*                                                                         *)
(* A behaviour is: an instance constructed for one tile (Init), then a     *)
(* __call__, one step per stencil invocation, in the order of __call__.    *)
(* Fields are integer valued; the weights edge_vect take the values 0, 1.  *)
(* SpecAxes lets the caller choose the west/east and the south/north       *)
(* weights apart; SpecRepeat lets a second __call__ follow the first.      *)
(***************************************************************************)
EXTENDS Integers, Sequences, FiniteSets, TLC

\* ---- bounds of the model ------------------------------------------------
Halo == 3      \* the halo width of the tiles
Npz == 1       \* the number of levels of the tiles
MaxN == 2      \* the largest nic, njc
MaxNp == 5     \* the largest npx, npy

VARIABLES
    grid,      \* self.grid: the tile (immutable after construction)
    self,      \* the instance: _dt5, _im2, _jm2, _domain_*, the FrozenStencils
    ue, ve,    \* self._ue_{1,2,3}, self._ve_{1,2,3}
    ut, vt,    \* self._ut_{1,2,3}, self._vt_{1,2,3}
    u, v,      \* the prognostic winds, accumulated into
    args,      \* the caller's choice of the other arguments of __call__
    pc,        \* "idle", the member __call__ invokes next, "done" on return
    log,       \* the members invoked so far by the call
    pre,       \* u, v on entry of the call
    prev       \* the caller's choice for the call before this one

vars == <<grid, self, ue, ve, ut, vt, u, v, args, pc, log, pre, prev>>

None == "None"

Min(a, b) == IF a <= b THEN a ELSE b
Max(a, b) == IF a >= b THEN a ELSE b

\* Python int(n / 2): true division, then truncation towards zero
IntHalf(n) == IF n >= 0 THEN n \div 2 ELSE -((-n) \div 2)

\* ---- the tile -----------------------------------------------------------
\* the compute domain in local indices: "# is: ie; js:je+1" is the region
\* origin=(halo, halo), domain=(nic, njc + 1)
is_(g) == g.halo
ie(g) == g.halo + g.nic - 1
js(g) == g.halo
je(g) == g.halo + g.njc - 1

\* grid.grid_indexing.max_shape: the full domain plus one interface point
max_shape(g) == <<g.nic + 2 * g.halo + 1, g.njc + 2 * g.halo + 1, g.npz + 1>>

namelist == [dt_atmos |-> 4]

AllGrids == [halo : {Halo}, nic : 0..MaxN, njc : 0..MaxN,
             npx : 2..MaxNp, npy : 2..MaxNp, npz : {Npz},
             west_edge : BOOLEAN, east_edge : BOOLEAN,
             south_edge : BOOLEAN, north_edge : BOOLEAN]

\* a tile of a panel of (npx - 1) x (npy - 1) cells that a layout divides
\* evenly: at least one cell each way, a whole number of tiles across the panel
WellFormed(g) == /\ g.nic >= 1 /\ g.njc >= 1
                 /\ (g.npx - 1) % g.nic = 0 /\ (g.npy - 1) % g.njc = 0

Grids == {g \in AllGrids : WellFormed(g)}

\* a grid object whose compute domain is empty one way: ie < is_ or je < js
Misconfigured(g) == g.nic = 0 \/ g.njc = 0

IJ(g) == (0..(max_shape(g)[1] - 1)) \X (0..(max_shape(g)[2] - 1))
Cells(g) == (0..(max_shape(g)[1] - 1)) \X (0..(max_shape(g)[2] - 1))
              \X (0..(max_shape(g)[3] - 1))

\* a storage of shape max_shape holding fn[<<i, j, k>>] at point (i, j, k)
Storage(g, fn) ==
    [i \in 0..(max_shape(g)[1] - 1) |->
       [j \in 0..(max_shape(g)[2] - 1) |->
          [k \in 0..(max_shape(g)[3] - 1) |-> fn[<<i, j, k>>]]]]

\* the value of storage f at the point c = <<i, j, k>>
At(f, c) == f[c[1]][c[2]][c[3]]

\* utils.make_storage_from_shape(shape, init=True)
make_storage_from_shape(g) == Storage(g, [c \in Cells(g) |-> 0])

\* ---- __init__: midpoints, sub-region descriptors -------------------------
im2(g) == IntHalf(g.npx - 1) + 2
jm2(g) == IntHalf(g.npy - 1) + 2

\* (variant: the lower sub-region one cell short)
je_lower_short(g) == Min(jm2(g), je(g)) - 1
je_lower(g) == Min(jm2(g), je(g))
\* (variant: the upper sub-region starts on the midpoint)
js_upper_on_midpoint(g) == Max(jm2(g), js(g))
js_upper(g) == Max(jm2(g) + 1, js(g))
ie_lower(g) == Min(im2(g), ie(g))
is_upper(g) == Max(im2(g) + 1, is_(g))
\* (variant: the east column one column further in)
i_origin_inside(g) == max_shape(g)[1] - g.halo - 2
i_origin(g) == max_shape(g)[1] - g.halo - 1
\* (variant: the north row one row further out)
j_origin_outside(g) == max_shape(g)[2] - g.halo
j_origin(g) == max_shape(g)[2] - g.halo - 1

domain_lower_west(g) == <<1, je_lower(g) - js(g) + 1, g.npz>>
domain_upper_west(g) == <<1, je(g) - js_upper(g) + 1, g.npz>>
domain_lower_east(g) == <<1, je_lower(g) - js(g) + 1, g.npz>>
domain_upper_east(g) == <<1, je(g) - js_upper(g) + 1, g.npz>>
domain_lower_south(g) == <<ie_lower(g) - is_(g) + 1, 1, g.npz>>
domain_upper_south(g) == <<ie(g) - is_upper(g) + 1, 1, g.npz>>
domain_lower_north(g) == <<ie_lower(g) - is_(g) + 1, 1, g.npz>>
domain_upper_north(g) == <<ie(g) - is_upper(g) + 1, 1, g.npz>>

\* the `if` nests that guard a sub-region, the same in __init__ and __call__
\* but for the upper south one
\* (variant: the lower west sub-region without the adjacency test)
LowerWestAnyTile(g) == js(g) <= jm2(g) /\ domain_lower_west(g)[2] > 0
LowerWest(g) == g.west_edge /\ js(g) <= jm2(g) /\ domain_lower_west(g)[2] > 0
UpperWest(g) == g.west_edge /\ je(g) > jm2(g) /\ domain_upper_west(g)[2] > 0
LowerEast(g) == g.east_edge /\ js(g) <= jm2(g) /\ domain_lower_east(g)[2] > 0
UpperEast(g) == g.east_edge /\ je(g) > jm2(g) /\ domain_upper_east(g)[2] > 0
LowerSouth(g) == g.south_edge /\ is_(g) <= im2(g) /\ domain_lower_south(g)[1] > 0
\* (variant: the upper south sub-region without the test against the midpoint)
UpperSouthInitUnguarded(g) == g.south_edge
UpperSouthInit(g) == g.south_edge /\ ie(g) > im2(g)
\* `if self._domain_upper_south:` is the truth value of a 3-tuple
UpperSouthCall(g) == g.south_edge /\ ie(g) > im2(g) /\ Len(domain_upper_south(g)) > 0
LowerNorth(g) == g.north_edge /\ is_(g) < im2(g) /\ domain_lower_north(g)[1] > 0
UpperNorth(g) == g.north_edge /\ je(g) >= jm2(g) /\ domain_upper_north(g)[1] > 0

\* (variant: the lower west copy-back ahead of the upper west blend)
OrderCopyBackEarly ==
         <<"_update_dwind_prep_stencil",
           "_update_dwind_y_edge_south_stencil1",
           "_copy3_stencil2",
           "_update_dwind_y_edge_north_stencil1",
           "_copy3_stencil1",
           "_update_dwind_y_edge_south_stencil2",
           "_update_dwind_y_edge_north_stencil2",
           "_copy3_stencil3",
           "_copy3_stencil4",
           "_update_dwind_x_edge_west_stencil1",
           "_update_dwind_x_edge_east_stencil1",
           "_copy3_stencil5",
           "_copy3_stencil6",
           "_update_dwind_x_edge_west_stencil2",
           "_update_dwind_x_edge_east_stencil2",
           "_copy3_stencil7",
           "_copy3_stencil8",
           "_update_uwind_stencil",
           "_update_vwind_stencil">>

\* (variant: the wind updates ahead of the corrections)
OrderUpdateFirst ==
         <<"_update_dwind_prep_stencil",
           "_update_uwind_stencil",
           "_update_vwind_stencil",
           "_update_dwind_y_edge_south_stencil1",
           "_update_dwind_y_edge_north_stencil1",
           "_copy3_stencil1",
           "_copy3_stencil2",
           "_update_dwind_y_edge_south_stencil2",
           "_update_dwind_y_edge_north_stencil2",
           "_copy3_stencil3",
           "_copy3_stencil4",
           "_update_dwind_x_edge_west_stencil1",
           "_update_dwind_x_edge_east_stencil1",
           "_copy3_stencil5",
           "_copy3_stencil6",
           "_update_dwind_x_edge_west_stencil2",
           "_update_dwind_x_edge_east_stencil2",
           "_copy3_stencil7",
           "_copy3_stencil8">>

\* the members of the instance that hold a FrozenStencil, in the order in
\* which __call__ invokes them
Order == <<"_update_dwind_prep_stencil",
           "_update_dwind_y_edge_south_stencil1",
           "_update_dwind_y_edge_north_stencil1",
           "_copy3_stencil1",
           "_copy3_stencil2",
           "_update_dwind_y_edge_south_stencil2",
           "_update_dwind_y_edge_north_stencil2",
           "_copy3_stencil3",
           "_copy3_stencil4",
           "_update_dwind_x_edge_west_stencil1",
           "_update_dwind_x_edge_east_stencil1",
           "_copy3_stencil5",
           "_copy3_stencil6",
           "_update_dwind_x_edge_west_stencil2",
           "_update_dwind_x_edge_east_stencil2",
           "_copy3_stencil7",
           "_copy3_stencil8",
           "_update_uwind_stencil",
           "_update_vwind_stencil">>

Members == {Order[n] : n \in 1..Len(Order)}

FrozenStencil(func, origin, domain) ==
    [func |-> func, origin |-> origin, domain |-> domain]

\* what __init__ passes to FrozenStencil for each member
Definition(g) ==
    [m \in Members |->
       CASE m = "_update_dwind_prep_stencil" ->
              FrozenStencil("update_dwind_prep_stencil",
                            <<g.halo - 1, g.halo - 1, 0>>,
                            <<g.nic + 2, g.njc + 2, g.npz>>)
         [] m = "_update_dwind_y_edge_south_stencil1" ->
              FrozenStencil("update_dwind_y_edge_south_stencil",
                            <<g.halo, g.halo, 0>>, domain_lower_west(g))
         [] m = "_update_dwind_y_edge_north_stencil1" ->
              FrozenStencil("update_dwind_y_edge_north_stencil",
                            <<g.halo, js_upper(g), 0>>, domain_upper_west(g))
         [] m = "_copy3_stencil1" ->
              FrozenStencil("copy3_stencil",
                            <<g.halo, js_upper(g), 0>>, domain_upper_west(g))
         [] m = "_copy3_stencil2" ->
              FrozenStencil("copy3_stencil",
                            <<g.halo, g.halo, 0>>, domain_lower_west(g))
         [] m = "_update_dwind_y_edge_south_stencil2" ->
              FrozenStencil("update_dwind_y_edge_south_stencil",
                            <<i_origin(g), g.halo, 0>>, domain_lower_east(g))
         [] m = "_update_dwind_y_edge_north_stencil2" ->
              FrozenStencil("update_dwind_y_edge_north_stencil",
                            <<i_origin(g), js_upper(g), 0>>, domain_upper_east(g))
         [] m = "_copy3_stencil3" ->
              FrozenStencil("copy3_stencil",
                            <<i_origin(g), js_upper(g), 0>>, domain_upper_east(g))
         [] m = "_copy3_stencil4" ->
              FrozenStencil("copy3_stencil",
                            <<i_origin(g), g.halo, 0>>, domain_lower_east(g))
         [] m = "_update_dwind_x_edge_west_stencil1" ->
              FrozenStencil("update_dwind_x_edge_west_stencil",
                            <<g.halo, g.halo, 0>>, domain_lower_south(g))
         [] m = "_update_dwind_x_edge_east_stencil1" ->
              FrozenStencil("update_dwind_x_edge_east_stencil",
                            <<is_upper(g), g.halo, 0>>, domain_upper_south(g))
         [] m = "_copy3_stencil5" ->
              FrozenStencil("copy3_stencil",
                            <<is_upper(g), g.halo, 0>>, domain_upper_south(g))
         [] m = "_copy3_stencil6" ->
              FrozenStencil("copy3_stencil",
                            <<g.halo, g.halo, 0>>, domain_lower_south(g))
         [] m = "_update_dwind_x_edge_west_stencil2" ->
              FrozenStencil("update_dwind_x_edge_west_stencil",
                            <<g.halo, j_origin(g), 0>>, domain_lower_north(g))
         [] m = "_update_dwind_x_edge_east_stencil2" ->
              FrozenStencil("update_dwind_x_edge_east_stencil",
                            <<is_upper(g), j_origin(g), 0>>, domain_upper_north(g))
         [] m = "_copy3_stencil7" ->
              FrozenStencil("copy3_stencil",
                            <<is_upper(g), j_origin(g), 0>>, domain_upper_north(g))
         [] m = "_copy3_stencil8" ->
              FrozenStencil("copy3_stencil",
                            <<g.halo, j_origin(g), 0>>, domain_lower_north(g))
         [] m = "_update_uwind_stencil" ->
              FrozenStencil("update_uwind_stencil",
                            <<g.halo, g.halo, 0>>,
                            <<g.nic, g.njc + 1, g.npz>>)
         [] m = "_update_vwind_stencil" ->
              FrozenStencil("update_vwind_stencil",
                            <<g.halo, g.halo, 0>>,
                            <<g.nic + 1, g.njc, g.npz>>)]

\* whether __init__ reaches the FrozenStencil(...) that sets the member
Constructed(g, m) ==
    CASE m \in {"_update_dwind_y_edge_south_stencil1", "_copy3_stencil2"} -> LowerWest(g)
      [] m \in {"_update_dwind_y_edge_north_stencil1", "_copy3_stencil1"} -> UpperWest(g)
      [] m \in {"_update_dwind_y_edge_south_stencil2", "_copy3_stencil4"} -> LowerEast(g)
      [] m \in {"_update_dwind_y_edge_north_stencil2", "_copy3_stencil3"} -> UpperEast(g)
      [] m \in {"_update_dwind_x_edge_west_stencil1", "_copy3_stencil6"} -> LowerSouth(g)
      [] m \in {"_update_dwind_x_edge_east_stencil1", "_copy3_stencil5"} -> UpperSouthInit(g)
      [] m \in {"_update_dwind_x_edge_west_stencil2", "_copy3_stencil8"} -> LowerNorth(g)
      [] m \in {"_update_dwind_x_edge_east_stencil2", "_copy3_stencil7"} -> UpperNorth(g)
      [] OTHER -> TRUE

\* whether __call__ reaches the invocation of the member
Invoked(g, m) ==
    CASE m \in {"_update_dwind_y_edge_south_stencil1", "_copy3_stencil2"} -> LowerWest(g)
      [] m \in {"_update_dwind_y_edge_north_stencil1", "_copy3_stencil1"} -> UpperWest(g)
      [] m \in {"_update_dwind_y_edge_south_stencil2", "_copy3_stencil4"} -> LowerEast(g)
      [] m \in {"_update_dwind_y_edge_north_stencil2", "_copy3_stencil3"} -> UpperEast(g)
      [] m \in {"_update_dwind_x_edge_west_stencil1", "_copy3_stencil6"} -> LowerSouth(g)
      [] m \in {"_update_dwind_x_edge_east_stencil1", "_copy3_stencil5"} -> UpperSouthCall(g)
      [] m \in {"_update_dwind_x_edge_west_stencil2", "_copy3_stencil8"} -> LowerNorth(g)
      [] m \in {"_update_dwind_x_edge_east_stencil2", "_copy3_stencil7"} -> UpperNorth(g)
      [] OTHER -> TRUE

\* AGrid2DGridPhysics(grid, namelist): the instance after __init__
AGrid2DGridPhysics(g) ==
    [_dt5 |-> namelist.dt_atmos \div 2,
     _im2 |-> im2(g),
     _jm2 |-> jm2(g),
     stencil |-> [m \in Members |->
                    IF Constructed(g, m) THEN Definition(g)[m]
                    ELSE FrozenStencil(None, <<0, 0, 0>>, <<0, 0, 0>>)]]

\* ---- the arguments of __call__ -------------------------------------------
ij(c) == <<c[1], c[2]>>

\* the tendencies and bases of a call: a uniform tendency with unit bases,
\* or fields that differ from cell to cell
u_dt_of(g, scen) ==
    [c \in Cells(g) |-> IF scen = 1 THEN 1 ELSE 1 + 3 * c[1] + 11 * c[2] + c[3]]
v_dt_of(g, scen) ==
    [c \in Cells(g) |-> IF scen = 1 THEN 0 ELSE 2 * c[1] - c[2] + 5 * c[3]]
vlon_of(g, scen) ==
    [n \in 1..3 |-> [p \in IJ(g) |-> IF scen = 1 THEN 1 ELSE n + p[1]]]
vlat_of(g, scen) ==
    [n \in 1..3 |-> [p \in IJ(g) |-> IF scen = 1 THEN 0 ELSE p[2] - n]]
es_of(g, scen) ==
    [n \in 1..3 |-> [p \in IJ(g) |-> IF scen = 1 THEN 1 ELSE 1 + ((p[1] + n * p[2]) % 3)]]
ew_of(g, scen) ==
    [n \in 1..3 |-> [p \in IJ(g) |-> IF scen = 1 THEN 1 ELSE 2 - ((n * p[1] + p[2]) % 3)]]

\* the blend weights: 0 everywhere, 1 everywhere, or 0 and 1 alternating
WeightModes == {"zero", "one", "mixed"}
Weight(mode, n) == IF mode = "zero" THEN 0 ELSE IF mode = "one" THEN 1 ELSE n % 2

\* the fields __call__ is given, for the choice a of the caller: the scenario
\* of the tendencies and bases, the mode of edge_vect_w and edge_vect_e, and
\* the mode of edge_vect_s and edge_vect_n
CallArgs(g, a) ==
    [u_dt |-> u_dt_of(g, a.scen),
     v_dt |-> v_dt_of(g, a.scen),
     vlon |-> vlon_of(g, a.scen),
     vlat |-> vlat_of(g, a.scen),
     edge_vect_w |-> [p \in IJ(g) |-> Weight(a.mode, p[1] + p[2])],
     edge_vect_e |-> [p \in IJ(g) |-> Weight(a.mode, p[1] + p[2] + 1)],
     edge_vect_s |-> [i \in 0..(max_shape(g)[1] - 1) |-> Weight(a.mode_sn, i)],
     edge_vect_n |-> [i \in 0..(max_shape(g)[1] - 1) |-> Weight(a.mode_sn, i + 1)],
     es |-> es_of(g, a.scen),
     ew |-> ew_of(g, a.scen)]

\* ---- the stencils ---------------------------------------------------------
\* (variant: the i-extent taken inclusive of origin + domain)
RegionInclusive(st) ==
    {c \in Cells(grid) :
        /\ st.origin[1] <= c[1] /\ c[1] <= st.origin[1] + st.domain[1]
        /\ st.origin[2] <= c[2] /\ c[2] < st.origin[2] + st.domain[2]
        /\ st.origin[3] <= c[3] /\ c[3] < st.origin[3] + st.domain[3]}
\* the index region origin .. origin + domain - 1 a FrozenStencil computes on
Region(st) ==
    {c \in Cells(grid) :
        /\ st.origin[1] <= c[1] /\ c[1] < st.origin[1] + st.domain[1]
        /\ st.origin[2] <= c[2] /\ c[2] < st.origin[2] + st.domain[2]
        /\ st.origin[3] <= c[3] /\ c[3] < st.origin[3] + st.domain[3]}

Shift(c, di, dj) == <<c[1] + di, c[2] + dj, c[3]>>

\* v3_n = u_dt * vlon_n + v_dt * vlat_n, a temporary of the Prep stencil
v3(a, n, c) == a.u_dt[c] * a.vlon[n][ij(c)] + a.v_dt[c] * a.vlat[n][ij(c)]

\* (variant: the average taken with the cell above)
prep_ue_above(a, n, c) == v3(a, n, Shift(c, 0, 1)) + v3(a, n, c)
\* ue_n = v3_n[0, -1, 0] + v3_n
prep_ue(a, n, c) == v3(a, n, Shift(c, 0, -1)) + v3(a, n, c)
\* (variant: the sum accumulated into the buffer)
prep_ve_accumulated(a, n, c) == At(ve[n], c) + v3(a, n, Shift(c, -1, 0)) + v3(a, n, c)
\* ve_n = v3_n[-1, 0, 0] + v3_n
prep_ve(a, n, c) == v3(a, n, Shift(c, -1, 0)) + v3(a, n, c)

\* (variant: the two weights exchanged)
y_edge_south_swapped(f, w, c) == (1 - w[ij(c)]) * At(f, Shift(c, 0, 1)) + w[ij(c)] * At(f, c)
\* vt = edge_vect * ve[0, 1, 0] + (1.0 - edge_vect) * ve
y_edge_south(f, w, c) == w[ij(c)] * At(f, Shift(c, 0, 1)) + (1 - w[ij(c)]) * At(f, c)
\* (variant: the shift of the south formula)
y_edge_north_plus(f, w, c) == w[ij(c)] * At(f, Shift(c, 0, 1)) + (1 - w[ij(c)]) * At(f, c)
\* vt = edge_vect * ve[0, -1, 0] + (1.0 - edge_vect) * ve
y_edge_north(f, w, c) == w[ij(c)] * At(f, Shift(c, 0, -1)) + (1 - w[ij(c)]) * At(f, c)
\* ut = edge_vect * ue[1, 0, 0] + (1.0 - edge_vect) * ue
x_edge_west(f, w, c) == w[c[1]] * At(f, Shift(c, 1, 0)) + (1 - w[c[1]]) * At(f, c)
\* ut = edge_vect * ue[-1, 0, 0] + (1.0 - edge_vect) * ue
x_edge_east(f, w, c) == w[c[1]] * At(f, Shift(c, -1, 0)) + (1 - w[c[1]]) * At(f, c)

\* u = u + dt5 * (ue_1 * es1_1 + ue_2 * es2_1 + ue_3 * es3_1)
uwind(uu, e, b, dt5, c) ==
    At(uu, c) + dt5 * (At(e[1], c) * b[1][ij(c)] + At(e[2], c) * b[2][ij(c)]
                       + At(e[3], c) * b[3][ij(c)])

\* a field after a stencil assigned val[c] to it at every c of the region R
Write(f, R, val) ==
    Storage(grid, [c \in Cells(grid) |-> IF c \in R THEN val[c] ELSE At(f, c)])

\* the three components of a field after a stencil assigned val[n][c] on R
Write3(f, R, val) == [n \in 1..3 |-> Write(f[n], R, val[n])]

\* the weight argument __call__ passes to the blend stencil held by member m
WeightArg(m) ==
    CASE m \in {"_update_dwind_y_edge_south_stencil1",
                "_update_dwind_y_edge_north_stencil1"} -> CallArgs(grid, args).edge_vect_w
      [] m \in {"_update_dwind_y_edge_south_stencil2",
                "_update_dwind_y_edge_north_stencil2"} -> CallArgs(grid, args).edge_vect_e
      [] m \in {"_update_dwind_x_edge_west_stencil1",
                "_update_dwind_x_edge_east_stencil1"} -> CallArgs(grid, args).edge_vect_s
      [] m \in {"_update_dwind_x_edge_west_stencil2",
                "_update_dwind_x_edge_east_stencil2"} -> CallArgs(grid, args).edge_vect_n

\* (variant: the upper south copy-back given the buffers of the west block)
CopiesVAlsoSouth(m) == m \in {"_copy3_stencil1", "_copy3_stencil2",
                              "_copy3_stencil3", "_copy3_stencil4",
                              "_copy3_stencil5"}
\* the copy-backs of the west and east boundaries copy vt to ve, those of the
\* south and north boundaries ut to ue
CopiesV(m) == m \in {"_copy3_stencil1", "_copy3_stencil2",
                     "_copy3_stencil3", "_copy3_stencil4"}

\* the offsets [di, dj, 0] at which a stencil function reads its input
\* scratch fields, relative to the point it computes
Offsets(func) ==
    CASE func = "update_dwind_y_edge_south_stencil" -> {<<0, 0>>, <<0, 1>>}
      [] func = "update_dwind_y_edge_north_stencil" -> {<<0, 0>>, <<0, -1>>}
      [] func = "update_dwind_x_edge_west_stencil" -> {<<0, 0>>, <<1, 0>>}
      [] func = "update_dwind_x_edge_east_stencil" -> {<<0, 0>>, <<-1, 0>>}
      [] func = "copy3_stencil" -> {<<0, 0>>}
      [] func = "update_uwind_stencil" -> {<<0, 0>>}
      [] func = "update_vwind_stencil" -> {<<0, 0>>}
      [] OTHER -> {}

\* the scratch buffers __call__ passes to member m as inputs and as outputs
Inputs(m) ==
    CASE m \in {"_update_dwind_y_edge_south_stencil1", "_update_dwind_y_edge_north_stencil1",
                "_update_dwind_y_edge_south_stencil2", "_update_dwind_y_edge_north_stencil2",
                "_update_vwind_stencil"} -> {"ve"}
      [] m \in {"_update_dwind_x_edge_west_stencil1", "_update_dwind_x_edge_east_stencil1",
                "_update_dwind_x_edge_west_stencil2", "_update_dwind_x_edge_east_stencil2",
                "_update_uwind_stencil"} -> {"ue"}
      [] m = "_update_dwind_prep_stencil" -> {}
      [] OTHER -> IF CopiesV(m) THEN {"vt"} ELSE {"ut"}
Outputs(m) ==
    CASE m \in {"_update_dwind_y_edge_south_stencil1", "_update_dwind_y_edge_north_stencil1",
                "_update_dwind_y_edge_south_stencil2",
                "_update_dwind_y_edge_north_stencil2"} -> {"vt"}
      [] m \in {"_update_dwind_x_edge_west_stencil1", "_update_dwind_x_edge_east_stencil1",
                "_update_dwind_x_edge_west_stencil2",
                "_update_dwind_x_edge_east_stencil2"} -> {"ut"}
      [] m = "_update_dwind_prep_stencil" -> {"ue", "ve"}
      [] m \in {"_update_uwind_stencil", "_update_vwind_stencil"} -> {}
      [] OTHER -> IF CopiesV(m) THEN {"ve"} ELSE {"ue"}

\* the member __call__ invokes after member m, "done" after the last one
After(m) ==
    LET n == CHOOSE x \in 1..Len(Order) : Order[x] = m
        later == {x \in (n + 1)..Len(Order) : Invoked(grid, Order[x])}
    IN  IF later = {} THEN "done"
        ELSE Order[CHOOSE x \in later : \A y \in later : x <= y]

\* the stencil to run now, when it is an instance of func
Running(func) ==
    /\ pc \in Members
    /\ self.stencil[pc].func = func

Step == /\ log' = Append(log, pc)
        /\ pc' = After(pc)
        /\ UNCHANGED <<grid, self, args, prev>>

\* the scratch buffers s = [ue, ve, ut, vt] after the blend or copy-back held
\* by member m ran on them with the arguments __call__ passes to it
Apply(m, s) ==
    LET st == self.stencil[m]
        R == Region(st)
        w == WeightArg(m)
    IN  CASE st.func = "update_dwind_y_edge_south_stencil" ->
               [s EXCEPT !.vt = Write3(s.vt, R,
                    [n \in 1..3 |-> [c \in R |-> y_edge_south(s.ve[n], w, c)]])]
          [] st.func = "update_dwind_y_edge_north_stencil" ->
               [s EXCEPT !.vt = Write3(s.vt, R,
                    [n \in 1..3 |-> [c \in R |-> y_edge_north(s.ve[n], w, c)]])]
          [] st.func = "update_dwind_x_edge_west_stencil" ->
               [s EXCEPT !.ut = Write3(s.ut, R,
                    [n \in 1..3 |-> [c \in R |-> x_edge_west(s.ue[n], w, c)]])]
          [] st.func = "update_dwind_x_edge_east_stencil" ->
               [s EXCEPT !.ut = Write3(s.ut, R,
                    [n \in 1..3 |-> [c \in R |-> x_edge_east(s.ue[n], w, c)]])]
          [] st.func = "copy3_stencil" /\ CopiesV(m) ->
               [s EXCEPT !.ve = Write3(s.ve, R,
                    [n \in 1..3 |-> [c \in R |-> At(s.vt[n], c)]])]
          [] st.func = "copy3_stencil" /\ ~CopiesV(m) ->
               [s EXCEPT !.ue = Write3(s.ue, R,
                    [n \in 1..3 |-> [c \in R |-> At(s.ut[n], c)]])]
          [] OTHER -> s

\* ---- the operations -------------------------------------------------------
\* no call came before
NoCall == [scen |-> 0, mode |-> None, mode_sn |-> None]

InitOn(G) ==
    /\ grid \in G
    /\ self = AGrid2DGridPhysics(grid)
    /\ ue = [n \in 1..3 |-> make_storage_from_shape(grid)]
    /\ ve = [n \in 1..3 |-> make_storage_from_shape(grid)]
    /\ ut = [n \in 1..3 |-> make_storage_from_shape(grid)]
    /\ vt = [n \in 1..3 |-> make_storage_from_shape(grid)]
    /\ u = Storage(grid, [c \in Cells(grid) |-> 100 + c[1] + 2 * c[2]])
    /\ v = Storage(grid, [c \in Cells(grid) |-> 200 - c[1] + c[2]])
    /\ args = [scen |-> 1, mode |-> "zero", mode_sn |-> "zero"]
    /\ pc = "idle"
    /\ log = <<>>
    /\ pre = [u |-> u, v |-> v]
    /\ prev = NoCall

\* an instance constructed for a tile of a panel
Init == InitOn(Grids)

\* an instance constructed for a misconfigured grid object
InitMisconfigured == InitOn({g \in AllGrids : Misconfigured(g)})

\* __call__ is entered with its arguments, the four weights of one mode
Call ==
    /\ pc = "idle"
    /\ \E scen \in 1..2, mode \in WeightModes :
          args' = [scen |-> scen, mode |-> mode, mode_sn |-> mode]
    /\ pc' = Order[1]
    /\ log' = <<>>
    /\ pre' = [u |-> u, v |-> v]
    /\ UNCHANGED <<grid, self, ue, ve, ut, vt, u, v, prev>>

\* __call__ is entered with fields that differ from cell to cell, the
\* weights of the west and east boundaries of one mode and those of the south
\* and north boundaries of another
CallAxes ==
    /\ pc = "idle"
    /\ \E mode \in WeightModes : \E mode_sn \in WeightModes \ {mode} :
          args' = [scen |-> 2, mode |-> mode, mode_sn |-> mode_sn]
    /\ pc' = Order[1]
    /\ log' = <<>>
    /\ pre' = [u |-> u, v |-> v]
    /\ UNCHANGED <<grid, self, ue, ve, ut, vt, u, v, prev>>

\* __call__ is entered again on the instance once the first call returned:
\* the scratch buffers hold what the first call left in them
CallAgain ==
    /\ pc = "done"
    /\ prev = NoCall
    /\ \E scen \in 1..2, mode \in WeightModes :
          args' = [scen |-> scen, mode |-> mode, mode_sn |-> mode]
    /\ prev' = args
    /\ pc' = Order[1]
    /\ log' = <<>>
    /\ pre' = [u |-> u, v |-> v]
    /\ UNCHANGED <<grid, self, ue, ve, ut, vt, u, v>>

UpdateDwindPrep ==
    /\ Running("update_dwind_prep_stencil")
    /\ LET R == Region(self.stencil[pc])
           a == CallArgs(grid, args)
           pue == [n \in 1..3 |-> [c \in R |-> prep_ue(a, n, c)]]
           pve == [n \in 1..3 |-> [c \in R |-> prep_ve(a, n, c)]]
       IN  /\ ue' = Write3(ue, R, pue)
           /\ ve' = Write3(ve, R, pve)
    /\ Step
    /\ UNCHANGED <<ut, vt, u, v, pre>>

UpdateDwindYEdgeSouth ==
    /\ Running("update_dwind_y_edge_south_stencil")
    /\ LET R == Region(self.stencil[pc])
           val == [n \in 1..3 |-> [c \in R |-> y_edge_south(ve[n], WeightArg(pc), c)]]
       IN  vt' = Write3(vt, R, val)
    /\ Step
    /\ UNCHANGED <<ue, ve, ut, u, v, pre>>

UpdateDwindYEdgeNorth ==
    /\ Running("update_dwind_y_edge_north_stencil")
    /\ LET R == Region(self.stencil[pc])
           val == [n \in 1..3 |-> [c \in R |-> y_edge_north(ve[n], WeightArg(pc), c)]]
       IN  vt' = Write3(vt, R, val)
    /\ Step
    /\ UNCHANGED <<ue, ve, ut, u, v, pre>>

UpdateDwindXEdgeWest ==
    /\ Running("update_dwind_x_edge_west_stencil")
    /\ LET R == Region(self.stencil[pc])
           val == [n \in 1..3 |-> [c \in R |-> x_edge_west(ue[n], WeightArg(pc), c)]]
       IN  ut' = Write3(ut, R, val)
    /\ Step
    /\ UNCHANGED <<ue, ve, vt, u, v, pre>>

UpdateDwindXEdgeEast ==
    /\ Running("update_dwind_x_edge_east_stencil")
    /\ LET R == Region(self.stencil[pc])
           val == [n \in 1..3 |-> [c \in R |-> x_edge_east(ue[n], WeightArg(pc), c)]]
       IN  ut' = Write3(ut, R, val)
    /\ Step
    /\ UNCHANGED <<ue, ve, vt, u, v, pre>>

Copy3 ==
    /\ Running("copy3_stencil")
    /\ LET R == Region(self.stencil[pc])
           fromV == [n \in 1..3 |-> [c \in R |-> At(vt[n], c)]]
           fromU == [n \in 1..3 |-> [c \in R |-> At(ut[n], c)]]
       IN  IF CopiesV(pc)
           THEN ve' = Write3(ve, R, fromV) /\ ue' = ue
           ELSE ue' = Write3(ue, R, fromU) /\ ve' = ve
    /\ Step
    /\ UNCHANGED <<ut, vt, u, v, pre>>

UpdateUwind ==
    /\ Running("update_uwind_stencil")
    /\ LET R == Region(self.stencil[pc])
       IN  u' = Write(u, R, [c \in R |->
                               uwind(u, ue, CallArgs(grid, args).es, self._dt5, c)])
    /\ Step
    /\ UNCHANGED <<ue, ve, ut, vt, v, pre>>

UpdateVwind ==
    /\ Running("update_vwind_stencil")
    /\ LET R == Region(self.stencil[pc])
       IN  v' = Write(v, R, [c \in R |->
                               uwind(v, ve, CallArgs(grid, args).ew, self._dt5, c)])
    /\ Step
    /\ UNCHANGED <<ue, ve, ut, vt, u, pre>>

Next ==
    \/ Call
    \/ UpdateDwindPrep
    \/ UpdateDwindYEdgeSouth
    \/ UpdateDwindYEdgeNorth
    \/ UpdateDwindXEdgeWest
    \/ UpdateDwindXEdgeEast
    \/ Copy3
    \/ UpdateUwind
    \/ UpdateVwind

Spec == Init /\ [][Next]_vars

\* the behaviour of __init__ and __call__ on a misconfigured tile
SpecMisconfigured == InitMisconfigured /\ [][Next]_vars

\* an instance constructed for a tile adjacent to more than one boundary
InitAxes ==
    InitOn({g \in Grids :
              Cardinality({f \in {"west_edge", "east_edge", "south_edge", "north_edge"} :
                             g[f]}) > 1})

NextAxes ==
    \/ CallAxes
    \/ UpdateDwindPrep
    \/ UpdateDwindYEdgeSouth
    \/ UpdateDwindYEdgeNorth
    \/ UpdateDwindXEdgeWest
    \/ UpdateDwindXEdgeEast
    \/ Copy3
    \/ UpdateUwind
    \/ UpdateVwind

SpecAxes == InitAxes /\ [][NextAxes]_vars

\* an instance constructed for a tile adjacent to all four boundaries, on
\* which every stencil of __call__ reads the scratch buffers
InitRepeat ==
    InitOn({g \in Grids : g.west_edge /\ g.east_edge /\ g.south_edge /\ g.north_edge})

NextRepeat ==
    \/ Call
    \/ CallAgain
    \/ UpdateDwindPrep
    \/ UpdateDwindYEdgeSouth
    \/ UpdateDwindYEdgeNorth
    \/ UpdateDwindXEdgeWest
    \/ UpdateDwindXEdgeEast
    \/ Copy3
    \/ UpdateUwind
    \/ UpdateVwind

SpecRepeat == InitRepeat /\ [][NextRepeat]_vars

\* ---- vocabulary of the properties ----------------------------------------
Side == {"west", "east", "south", "north"}

Adjacent(b) == CASE b = "west" -> grid.west_edge [] b = "east" -> grid.east_edge
                 [] b = "south" -> grid.south_edge [] b = "north" -> grid.north_edge

\* the tangential range of the tile on a boundary and the midpoint it is split at
TangLo(b) == IF b \in {"west", "east"} THEN js(grid) ELSE is_(grid)
TangHi(b) == IF b \in {"west", "east"} THEN je(grid) ELSE ie(grid)
TangRange(b) == TangLo(b)..TangHi(b)
Midpoint(b) == IF b \in {"west", "east"} THEN self._jm2 ELSE self._im2
Tang(b, c) == IF b \in {"west", "east"} THEN c[2] ELSE c[1]
TangShift(b, c, d) == IF b \in {"west", "east"} THEN Shift(c, 0, d) ELSE Shift(c, d, 0)

Halves == {"lower", "upper"}

Blend(b, h) ==
    CASE b = "west" /\ h = "lower" -> "_update_dwind_y_edge_south_stencil1"
      [] b = "west" /\ h = "upper" -> "_update_dwind_y_edge_north_stencil1"
      [] b = "east" /\ h = "lower" -> "_update_dwind_y_edge_south_stencil2"
      [] b = "east" /\ h = "upper" -> "_update_dwind_y_edge_north_stencil2"
      [] b = "south" /\ h = "lower" -> "_update_dwind_x_edge_west_stencil1"
      [] b = "south" /\ h = "upper" -> "_update_dwind_x_edge_east_stencil1"
      [] b = "north" /\ h = "lower" -> "_update_dwind_x_edge_west_stencil2"
      [] b = "north" /\ h = "upper" -> "_update_dwind_x_edge_east_stencil2"

CopyBack(b, h) ==
    CASE b = "west" /\ h = "lower" -> "_copy3_stencil2"
      [] b = "west" /\ h = "upper" -> "_copy3_stencil1"
      [] b = "east" /\ h = "lower" -> "_copy3_stencil4"
      [] b = "east" /\ h = "upper" -> "_copy3_stencil3"
      [] b = "south" /\ h = "lower" -> "_copy3_stencil6"
      [] b = "south" /\ h = "upper" -> "_copy3_stencil5"
      [] b = "north" /\ h = "lower" -> "_copy3_stencil8"
      [] b = "north" /\ h = "upper" -> "_copy3_stencil7"

Blends == {Blend(b, h) : b \in Side, h \in Halves}
CopyBacks == {CopyBack(b, h) : b \in Side, h \in Halves}
Correction == Blends \cup CopyBacks

InLog(m) == \E n \in 1..Len(log) : log[n] = m
Count(m) == Cardinality({n \in 1..Len(log) : log[n] = m})
Built(m) == self.stencil[m].func # None

\* the Correction stage is over: the wind updates are next, or the call returned
Corrected == pc \in {"_update_uwind_stencil", "_update_vwind_stencil", "done"}

\* the primary edge field a boundary's correction works on, and its temporary
Primary(b) == IF b \in {"west", "east"} THEN ve ELSE ue
Temporary(b) == IF b \in {"west", "east"} THEN vt ELSE ut

\* what Prep computes for the primary edge field of boundary b at cell c
PrepValue(b, n, c) ==
    LET a == CallArgs(grid, args)
    IN  IF b \in {"west", "east"}
        THEN v3(a, n, c) + v3(a, n, <<c[1] - 1, c[2], c[3]>>)
        ELSE v3(a, n, c) + v3(a, n, <<c[1], c[2] - 1, c[3]>>)

\* the cells i in [is_-1..ie+1], j in [js-1..je+1] of every level
PrepCells == {c \in Cells(grid) :
                /\ c[1] \in (is_(grid) - 1)..(ie(grid) + 1)
                /\ c[2] \in (js(grid) - 1)..(je(grid) + 1)
                /\ c[3] \in 0..(grid.npz - 1)}

\* u: i in [is_..ie], j in [js..je+1];  v: i in [is_..ie+1], j in [js..je]
UCells == {c \in Cells(grid) :
             /\ c[1] \in is_(grid)..ie(grid)
             /\ c[2] \in js(grid)..(je(grid) + 1)
             /\ c[3] \in 0..(grid.npz - 1)}
VCells == {c \in Cells(grid) :
             /\ c[1] \in is_(grid)..(ie(grid) + 1)
             /\ c[2] \in js(grid)..je(grid)
             /\ c[3] \in 0..(grid.npz - 1)}

\* the increments of the composition of Prep and the wind updates alone
UIncrement(c) ==
    LET a == CallArgs(grid, args)
    IN  self._dt5 * (a.es[1][ij(c)] * PrepValue("south", 1, c)
                     + a.es[2][ij(c)] * PrepValue("south", 2, c)
                     + a.es[3][ij(c)] * PrepValue("south", 3, c))
VIncrement(c) ==
    LET a == CallArgs(grid, args)
    IN  self._dt5 * (a.ew[1][ij(c)] * PrepValue("west", 1, c)
                     + a.ew[2][ij(c)] * PrepValue("west", 2, c)
                     + a.ew[3][ij(c)] * PrepValue("west", 3, c))

PrepThenUpdate ==
    /\ \A c \in Cells(grid) :
          At(u, c) = IF c \in UCells THEN At(pre.u, c) + UIncrement(c) ELSE At(pre.u, c)
    /\ \A c \in Cells(grid) :
          At(v, c) = IF c \in VCells THEN At(pre.v, c) + VIncrement(c) ELSE At(pre.v, c)

\* the tangential indices a half of a boundary was corrected on: blended and
\* copied back
CorrectedOn(b, h) ==
    IF InLog(Blend(b, h)) /\ InLog(CopyBack(b, h))
    THEN {Tang(b, c) : c \in Region(self.stencil[Blend(b, h)])
                              \cap Region(self.stencil[CopyBack(b, h)])}
    ELSE {}

\* ---- C1 -------------------------------------------------------------------
\* C1: on every boundary the tile is adjacent to, the lower and the upper
\* sub-region a call corrects are disjoint and together are the whole
\* tangential range of the tile (no gap, no overlap).
C1_ExactPartition ==
    pc = "done" =>
      \A b \in Side : Adjacent(b) =>
         /\ CorrectedOn(b, "lower") \cap CorrectedOn(b, "upper") = {}
         /\ CorrectedOn(b, "lower") \cup CorrectedOn(b, "upper") = TangRange(b)

\* ---- C2 -------------------------------------------------------------------
NoAdjacency == \A b \in Side : ~Adjacent(b)

\* C2: with all four adjacency flags false a call invokes no blend and no
\* copy-back, and the final u, v are those of Prep followed by the updates.
C2_NoAdjacencyNoCorrection ==
    NoAdjacency =>
       /\ \A m \in Correction : ~InLog(m) /\ pc # m
       /\ pc = "done" => PrepThenUpdate

C2_Witness == NoAdjacency /\ pc = "done" /\ args.mode = "one" /\ args.scen = 2

\* ---- C3 -------------------------------------------------------------------
\* C3: with every weight 0 the Correction stage is the identity: once it is
\* over every cell of ue, ve holds what Prep wrote, and the final u, v are
\* those of Prep followed by the updates.
C3_ZeroWeightIdentity ==
    args.mode = "zero" =>
       /\ Corrected =>
            \A n \in 1..3, c \in PrepCells :
               /\ At(ue[n], c) = PrepValue("south", n, c)
               /\ At(ve[n], c) = PrepValue("west", n, c)
       /\ pc = "done" => PrepThenUpdate

C3_Witness ==
    /\ pc = "done" /\ args.mode = "zero" /\ args.scen = 2
    /\ \A b \in Side : Adjacent(b)
    /\ InLog(CopyBack("west", "lower")) /\ InLog(CopyBack("west", "upper"))

\* ---- C4 -------------------------------------------------------------------
\* the tangential shift of the formula of a blend stencil function
FormulaShift(func) ==
    CASE func = "update_dwind_y_edge_south_stencil" -> 1
      [] func = "update_dwind_y_edge_north_stencil" -> -1
      [] func = "update_dwind_x_edge_west_stencil" -> 1
      [] func = "update_dwind_x_edge_east_stencil" -> -1

\* C4: with every weight 1, once the Correction stage is over every cell of
\* every corrected sub-region of the primary edge field holds what Prep wrote
\* one cell along the shift of the formula applied there, and the copy-back
\* covers exactly the sub-region that was blended.
C4_FullBlend ==
    (args.mode = "one" /\ Corrected) =>
       \A b \in Side, h \in Halves :
          (InLog(Blend(b, h)) \/ InLog(CopyBack(b, h))) =>
             /\ InLog(Blend(b, h)) /\ InLog(CopyBack(b, h))
             /\ Region(self.stencil[Blend(b, h)]) = Region(self.stencil[CopyBack(b, h)])
             /\ \A n \in 1..3, c \in Region(self.stencil[CopyBack(b, h)]) :
                   At(Primary(b)[n], c) =
                     PrepValue(b, n, TangShift(b, c,
                                 FormulaShift(self.stencil[Blend(b, h)].func)))

C4_Witness ==
    /\ pc = "done" /\ args.mode = "one" /\ args.scen = 2
    /\ \A b \in {"west", "east", "south"}, h \in Halves : InLog(CopyBack(b, h))
    /\ InLog(CopyBack("north", "upper"))

\* ---- C5 -------------------------------------------------------------------
\* C5: without boundary adjacency, or with every weight 0, a call adds to u
\* on i in [is_..ie], j in [js..je+1] exactly dt5 * sum_n es{n}_1 * (v3_n(i,j)
\* + v3_n(i,j-1)) and to v on i in [is_..ie+1], j in [js..je] exactly
\* dt5 * sum_n ew{n}_2 * (v3_n(i,j) + v3_n(i-1,j)); a uniform tendency with
\* uniform bases adds a uniform increment.
C5_ClosedFormIncrement ==
    (pc = "done" /\ (NoAdjacency \/ args.mode = "zero")) =>
       LET a == CallArgs(grid, args)
           du(c) == self._dt5 *
                     (a.es[1][ij(c)] * (v3(a, 1, c) + v3(a, 1, Shift(c, 0, -1)))
                      + a.es[2][ij(c)] * (v3(a, 2, c) + v3(a, 2, Shift(c, 0, -1)))
                      + a.es[3][ij(c)] * (v3(a, 3, c) + v3(a, 3, Shift(c, 0, -1))))
           dv(c) == self._dt5 *
                     (a.ew[1][ij(c)] * (v3(a, 1, c) + v3(a, 1, Shift(c, -1, 0)))
                      + a.ew[2][ij(c)] * (v3(a, 2, c) + v3(a, 2, Shift(c, -1, 0)))
                      + a.ew[3][ij(c)] * (v3(a, 3, c) + v3(a, 3, Shift(c, -1, 0))))
       IN  /\ \A c \in UCells : At(u, c) - At(pre.u, c) = du(c)
           /\ \A c \in VCells : At(v, c) - At(pre.v, c) = dv(c)
           /\ args.scen = 1 =>
                /\ \A c, d \in UCells : At(u, c) - At(pre.u, c) = At(u, d) - At(pre.u, d)
                /\ \A c, d \in VCells : At(v, c) - At(pre.v, c) = At(v, d) - At(pre.v, d)

C5_Witness ==
    /\ pc = "done" /\ NoAdjacency /\ args.scen = 1
    /\ grid.nic = MaxN /\ grid.njc = MaxN
    /\ \E c \in UCells : At(u, c) # At(pre.u, c)

\* ---- C6 -------------------------------------------------------------------
\* a blend has just run on half h of boundary b
JustBlended(b, h) == Len(log) > 0 /\ log[Len(log)] = Blend(b, h)

\* the weight the blend of boundary b applies at cell c
WeightAt(b, h, c) ==
    IF b \in {"west", "east"} THEN WeightArg(Blend(b, h))[ij(c)]
    ELSE WeightArg(Blend(b, h))[c[1]]

\* the temporary holds, where the weight is 1, the primary field d cells along
\* the boundary
BlendsWith(b, h, d) ==
    \A n \in 1..3, c \in Region(self.stencil[Blend(b, h)]) :
       WeightAt(b, h, c) = 1 =>
          At(Temporary(b)[n], c) = At(Primary(b)[n], TangShift(b, c, d))

\* C6 as stated: the lower sub-region of a west or south boundary blends with
\* the neighbour at index +1 and that of an east or north boundary with the
\* neighbour at index -1; the upper sub-region uses the opposite shift.
C6_ShiftByBoundary ==
    \A b \in Side :
       /\ JustBlended(b, "lower") =>
             BlendsWith(b, "lower", IF b \in {"west", "south"} THEN 1 ELSE -1)
       /\ JustBlended(b, "upper") =>
             BlendsWith(b, "upper", IF b \in {"west", "south"} THEN -1 ELSE 1)

\* C6 amended: on every boundary the lower sub-region blends with the
\* neighbour at tangential index +1 and the upper sub-region with the
\* neighbour at tangential index -1.
C6_ShiftBySubRegion ==
    \A b \in Side :
       /\ JustBlended(b, "lower") => BlendsWith(b, "lower", 1)
       /\ JustBlended(b, "upper") => BlendsWith(b, "upper", -1)

C6_Witness ==
    /\ args.mode = "one" /\ args.scen = 2
    /\ JustBlended("east", "upper")
    /\ InLog(Blend("east", "lower"))

\* ---- C7 -------------------------------------------------------------------
LowerExtent(b) == Cardinality({t \in TangRange(b) : t <= Midpoint(b)})
UpperExtent(b) == Cardinality({t \in TangRange(b) : t > Midpoint(b)})

\* C7: on every adjacent boundary the lower blend and copy-back run iff the
\* lower tangential bound is <= the midpoint (and the extent is positive), the
\* upper ones iff the upper tangential bound is > the midpoint (and the extent
\* is positive), the same for all four boundaries.
C7_SubRegionSelection ==
    pc = "done" =>
      \A b \in Side : Adjacent(b) =>
         /\ InLog(Blend(b, "lower")) <=> (TangLo(b) <= Midpoint(b) /\ LowerExtent(b) > 0)
         /\ InLog(CopyBack(b, "lower")) <=> (TangLo(b) <= Midpoint(b) /\ LowerExtent(b) > 0)
         /\ InLog(Blend(b, "upper")) <=> (TangHi(b) > Midpoint(b) /\ UpperExtent(b) > 0)
         /\ InLog(CopyBack(b, "upper")) <=> (TangHi(b) > Midpoint(b) /\ UpperExtent(b) > 0)

\* ---- C8 -------------------------------------------------------------------
BoundaryOf(m) == CHOOSE b \in Side : \E h \in Halves : m \in {Blend(b, h), CopyBack(b, h)}

PositiveExtent(m) == \A n \in 1..3 : self.stencil[m].domain[n] > 0

\* C8: no blend or copy-back is constructed or invoked over a sub-region of
\* zero or negative extent, and none is invoked for a boundary the tile does
\* not touch.
C8_NoDegenerateStencil ==
    \A m \in Correction :
       /\ Built(m) => PositiveExtent(m)
       /\ (InLog(m) \/ pc = m) => (Built(m) /\ PositiveExtent(m) /\ Adjacent(BoundaryOf(m)))

C8_Witness ==
    /\ pc = "done"
    /\ InLog(Blend("south", "upper")) /\ InLog(CopyBack("south", "upper"))
    /\ self.stencil[Blend("south", "upper")].domain[1] = 1
    /\ ~Built(Blend("south", "lower"))
    /\ grid.west_edge /\ ~Built(Blend("west", "upper"))

\* ---- C9 -------------------------------------------------------------------
\* a tile flagged adjacent to a boundary on which its tangential range is
\* empty (upper bound below lower bound) or a computed extent is negative
Inconsistent ==
    \E b \in Side :
       /\ Adjacent(b)
       /\ \/ TangHi(b) < TangLo(b)
          \/ Min(Midpoint(b), TangHi(b)) - TangLo(b) + 1 < 0

\* C9: for an inconsistent tile construction ends in a configuration error:
\* there is no instance on which a call could run to its end with the
\* correction skipped.
C9_FailFastAtSetup == Inconsistent => pc # "done"

\* ---- C10 ------------------------------------------------------------------
\* C10: Prep is the first stencil a call invokes, no blend or copy-back runs
\* after a wind update, and each wind update runs exactly once per call.
C10_PassOrder ==
    /\ pc # "idle" =>
         IF log = <<>> THEN pc = "_update_dwind_prep_stencil"
         ELSE log[1] = "_update_dwind_prep_stencil" /\ pc # "_update_dwind_prep_stencil"
    /\ Count("_update_dwind_prep_stencil") <= 1
    /\ \A n \in 1..Len(log) :
          log[n] \in {"_update_uwind_stencil", "_update_vwind_stencil"} =>
             /\ pc \notin Correction
             /\ \A k \in (n + 1)..Len(log) : log[k] \notin Correction
    /\ Count("_update_uwind_stencil") <= 1 /\ Count("_update_vwind_stencil") <= 1
    /\ InLog("_update_vwind_stencil") => InLog("_update_uwind_stencil")
    /\ pc = "done" =>
         /\ Count("_update_uwind_stencil") = 1
         /\ Count("_update_vwind_stencil") = 1
         /\ log[Len(log) - 1] = "_update_uwind_stencil"
         /\ log[Len(log)] = "_update_vwind_stencil"

C10_Witness ==
    /\ pc = "done"
    /\ \A b \in {"west", "east", "south"} :
          InLog(Blend(b, "lower")) /\ InLog(CopyBack(b, "upper"))
    /\ InLog(Blend("north", "upper"))
    /\ Len(log) = 17

\* ---- C11 ------------------------------------------------------------------
\* the cells of its input scratch buffers that member m reads when invoked
ReadCells(m) ==
    {Shift(c, o[1], o[2]) : c \in Region(self.stencil[m]),
                            o \in Offsets(self.stencil[m].func)}

\* the cells of scratch buffer f written so far by the stencils of this call
WrittenCells(f) ==
    UNION {Region(self.stencil[log[n]]) : n \in {x \in 1..Len(log) : f \in Outputs(log[x])}}

\* C11: every cell of ue, ve that a blend (shifted-neighbour read included) or
\* a wind update is about to read lies in the region Prep wrote in this call,
\* i in [is_-1..ie+1], j in [js-1..je+1], and every cell of ut, vt a copy-back
\* is about to read was written by a blend earlier in this call.
C11_WriteBeforeRead ==
    /\ pc \in Members =>
          \A f \in Inputs(pc) :
             /\ ReadCells(pc) \subseteq WrittenCells(f)
             /\ f \in {"ue", "ve"} =>
                   /\ log # <<>> /\ log[1] = "_update_dwind_prep_stencil"
                   /\ ReadCells(pc) \subseteq Region(self.stencil[log[1]])
             /\ f \in {"ut", "vt"} =>
                   ReadCells(pc) \subseteq
                      UNION {Region(self.stencil[m]) : m \in {b \in Blends : InLog(b)}}
    /\ InLog("_update_dwind_prep_stencil") =>
          Region(self.stencil["_update_dwind_prep_stencil"]) = PrepCells

C11_Witness ==
    /\ prev # NoCall /\ prev.mode = "one"
    /\ pc = CopyBack("north", "upper")
    /\ \A b \in {"west", "east", "south"}, h \in Halves : InLog(CopyBack(b, h))
    /\ ReadCells(pc) # {}
    /\ \E c \in ReadCells(Blend("west", "lower")) : c[2] = self._jm2 + 1

\* ---- C12 ------------------------------------------------------------------
WindUpdates == {"_update_uwind_stencil", "_update_vwind_stencil"}

\* what a step of a call leaves alone: the arguments of the call, u and v
\* unless it is their update, and u, v off the regions of the updates
FrameOfStep ==
    /\ pc \in Members => (args' = args /\ grid' = grid)
    /\ pc # "_update_uwind_stencil" => u' = u
    /\ pc # "_update_vwind_stencil" => v' = v
    /\ \A c \in Cells(grid) \ UCells : At(u', c) = At(u, c)
    /\ \A c \in Cells(grid) \ VCells : At(v', c) = At(v, c)

\* over a call so far: u, v as on entry until their update ran, and as on
\* entry off the regions of the updates
FrameOfCall ==
    /\ (pc # "idle" /\ ~InLog("_update_uwind_stencil")) => u = pre.u
    /\ (pc # "idle" /\ ~InLog("_update_vwind_stencil")) => v = pre.v
    /\ \A c \in Cells(grid) \ UCells : At(u, c) = At(pre.u, c)
    /\ \A c \in Cells(grid) \ VCells : At(v, c) = At(pre.v, c)

\* C12: Prep, the blends and the copy-backs leave u, v and the arguments of
\* the call unchanged; over a whole call u changes only on i in [is_..ie],
\* j in [js..je+1] and v only on i in [is_..ie+1], j in [js..je].
C12_OnlyUpdatesWrite == []FrameOfCall /\ [][FrameOfStep]_vars

C12_Witness ==
    /\ pc = "done" /\ args.scen = 2 /\ args.mode = "mixed"
    /\ InLog(CopyBack("west", "lower")) /\ InLog(CopyBack("south", "upper"))
    /\ \A c \in UCells : At(u, c) # At(pre.u, c)
    /\ \E c \in VCells : At(v, c) # At(pre.v, c)

\* ---- C13 ------------------------------------------------------------------
WestEast == {"west", "east"}
SouthNorth == {"south", "north"}

Scratch == [ue |-> ue, ve |-> ve, ut |-> ut, vt |-> vt]

\* the members of the block of __call__ for boundary b, in its order
Block(b) == <<Blend(b, "lower"), Blend(b, "upper"), CopyBack(b, "upper"), CopyBack(b, "lower")>>
InBlock(b) == {Block(b)[n] : n \in 1..4}

\* the scratch buffers after the block of boundary b ran on s
ApplyBlock(b, s) ==
    LET run(m, t) == IF Invoked(grid, m) THEN Apply(m, t) ELSE t
    IN  run(Block(b)[4], run(Block(b)[3], run(Block(b)[2], run(Block(b)[1], s))))

\* the cells the stencils of boundary b write, and those they read or write,
\* of the buffers of its axis (ve, vt for west and east, ue, ut for south and
\* north)
WrittenFor(b) == UNION {Region(self.stencil[m]) : m \in InBlock(b)}
TouchedFor(b) == WrittenFor(b) \cup UNION {ReadCells(m) : m \in InBlock(b)}

\* the weight the caller supplies for boundary b at cell c
BoundaryWeight(b, c) ==
    LET a == CallArgs(grid, args)
    IN  CASE b = "west" -> a.edge_vect_w[ij(c)] [] b = "east" -> a.edge_vect_e[ij(c)]
          [] b = "south" -> a.edge_vect_s[c[1]] [] b = "north" -> a.edge_vect_n[c[1]]

\* the boundary and half whose corrected sub-region holds cell c of the
\* primary field of the axis of boundary a
SubRegionsAt(a, c) ==
    {bh \in (IF a \in WestEast THEN WestEast ELSE SouthNorth) \X Halves :
        c \in Region(self.stencil[CopyBack(bh[1], bh[2])])}

\* the value of the primary field of the axis of boundary a at cell c once the
\* Correction stage is over, from the Prep values and the weights of that
\* axis alone: blended with the neighbour at +1 (lower) or -1 (upper)
Expected(a, n, c) ==
    IF SubRegionsAt(a, c) = {} THEN PrepValue(a, n, c)
    ELSE LET bh == CHOOSE x \in SubRegionsAt(a, c) : TRUE
             b == bh[1]
             d == IF bh[2] = "lower" THEN 1 ELSE -1
         IN  BoundaryWeight(b, c) * PrepValue(b, n, TangShift(b, c, d))
               + (1 - BoundaryWeight(b, c)) * PrepValue(b, n, c)

\* the increments of u and v that follow from Expected
ExpectedDu(c) ==
    LET a == CallArgs(grid, args)
    IN  self._dt5 * (a.es[1][ij(c)] * Expected("south", 1, c)
                     + a.es[2][ij(c)] * Expected("south", 2, c)
                     + a.es[3][ij(c)] * Expected("south", 3, c))
ExpectedDv(c) ==
    LET a == CallArgs(grid, args)
    IN  self._dt5 * (a.ew[1][ij(c)] * Expected("west", 1, c)
                     + a.ew[2][ij(c)] * Expected("west", 2, c)
                     + a.ew[3][ij(c)] * Expected("west", 3, c))

\* the weights of both axes are not all 0
BothBlend == args.mode # "zero" /\ args.mode_sn # "zero"

\* a west or east stencil leaves ue, ut alone, a south or north stencil ve, vt,
\* and a blend or copy-back does to the buffers what Apply says
AxisOfStep ==
    /\ (\E b \in WestEast : pc \in InBlock(b)) => (ue' = ue /\ ut' = ut)
    /\ (\E b \in SouthNorth : pc \in InBlock(b)) => (ve' = ve /\ vt' = vt)
    /\ (pc \in Correction /\ BothBlend) =>
          [ue |-> ue', ve |-> ve', ut |-> ut', vt |-> vt'] = Apply(pc, Scratch)

\* the pairs of distinct boundaries of one axis
SameAxis == {<<"west", "east">>, <<"south", "north">>}

AxesApart ==
    /\ pc = "idle" =>
          /\ \A b \in WestEast : \A m \in InBlock(b) :
                Inputs(m) \cup Outputs(m) \subseteq {"ve", "vt"}
          /\ \A b \in SouthNorth : \A m \in InBlock(b) :
                Inputs(m) \cup Outputs(m) \subseteq {"ue", "ut"}
          /\ \A p \in SameAxis :
                /\ WrittenFor(p[1]) \cap TouchedFor(p[2]) = {}
                /\ WrittenFor(p[2]) \cap TouchedFor(p[1]) = {}
    /\ (Len(log) = 1 /\ BothBlend) =>
          \A p \in SameAxis :
             ApplyBlock(p[2], ApplyBlock(p[1], Scratch))
               = ApplyBlock(p[1], ApplyBlock(p[2], Scratch))
    /\ pc = "_update_uwind_stencil" =>
          \A n \in 1..3, c \in PrepCells :
             /\ At(ve[n], c) = Expected("west", n, c)
             /\ At(ue[n], c) = Expected("south", n, c)
    /\ pc = "done" =>
          /\ \A c \in UCells : At(u, c) = At(pre.u, c) + ExpectedDu(c)
          /\ \A c \in VCells : At(v, c) = At(pre.v, c) + ExpectedDv(c)

\* C13: west and east corrections work on ve, vt only and south and north
\* corrections on ue, ut only; no cell written for one boundary is read or
\* written for another; the corrected ve and v follow from the Prep values
\* and edge_vect_w, edge_vect_e alone, the corrected ue and u from the Prep
\* values and edge_vect_s, edge_vect_n alone; and the blocks of the two
\* boundaries of an axis give the same buffers in either order (the blocks of
\* different axes work on different buffers; the order is tried where both
\* axes blend).
C13_AxesIndependent == []AxesApart /\ [][AxisOfStep]_vars

C13_Witness ==
    /\ pc = "done" /\ args.mode = "one" /\ args.mode_sn = "zero"
    /\ \A b \in Side : Adjacent(b)
    /\ \A b \in {"west", "east", "south"}, h \in Halves : InLog(CopyBack(b, h))
    /\ \E n \in 1..3, c \in PrepCells : At(ve[n], c) # PrepValue("west", n, c)
    /\ \A n \in 1..3, c \in PrepCells : At(ue[n], c) = PrepValue("south", n, c)

\* ---- C14 ------------------------------------------------------------------
\* the index across the boundary of the line of cells lying on boundary b
LineIndex(b) ==
    CASE b = "west" -> is_(grid) [] b = "east" -> ie(grid) + 1
      [] b = "south" -> js(grid) [] b = "north" -> je(grid) + 1

\* the cells of the line of boundary b at tangential index t
LineCells(b, t) ==
    {c \in Cells(grid) :
        /\ c[3] \in 0..(grid.npz - 1)
        /\ IF b \in WestEast THEN c[1] = LineIndex(b) /\ c[2] = t
           ELSE c[2] = LineIndex(b) /\ c[1] = t}

\* the boundary that meets boundary b at the low and at the high end of its line
MeetsLow(b) == IF b \in WestEast THEN "south" ELSE "west"
MeetsHigh(b) == IF b \in WestEast THEN "north" ELSE "east"

\* the end cells next to a cube vertex: <<b, c>> with c an end cell of the line
\* of boundary b on a tile adjacent to b and to the boundary meeting b there
CornerEndCells ==
    {bc \in Side \X Cells(grid) :
        /\ Adjacent(bc[1])
        /\ \/ Adjacent(MeetsLow(bc[1])) /\ bc[2] \in LineCells(bc[1], TangLo(bc[1]))
           \/ Adjacent(MeetsHigh(bc[1])) /\ bc[2] \in LineCells(bc[1], TangHi(bc[1]))}

\* C14 as stated: no blend or copy-back writes an end cell next to a cube
\* vertex, and after the Correction stage it holds the raw value Prep wrote.
C14_CornerCellsExcluded ==
    \A bc \in CornerEndCells :
       /\ \A m \in InBlock(bc[1]) :
             InLog(m) => bc[2] \notin Region(self.stencil[m])
       /\ Corrected =>
             \A n \in 1..3 : At(Primary(bc[1])[n], bc[2]) = PrepValue(bc[1], n, bc[2])

\* tangential index t lies in half h of boundary b
InHalf(b, h, t) == IF h = "lower" THEN t <= Midpoint(b) ELSE t > Midpoint(b)

\* C14 amended: the end cells next to a cube vertex are not excluded: an end
\* cell in the half of a sub-region that is corrected is written by that
\* sub-region's blend and copy-back, and after the Correction stage every end
\* cell holds the value of its sub-region's blend (the raw Prep value only
\* where its weight is 0 or its sub-region was not corrected).
C14_EndCellsCorrected ==
    Corrected =>
       \A bc \in CornerEndCells :
          /\ \A h \in Halves :
                (InLog(CopyBack(bc[1], h)) /\ InHalf(bc[1], h, Tang(bc[1], bc[2]))) =>
                   /\ InLog(Blend(bc[1], h))
                   /\ bc[2] \in Region(self.stencil[Blend(bc[1], h)])
                   /\ bc[2] \in Region(self.stencil[CopyBack(bc[1], h)])
          /\ \A n \in 1..3 : At(Primary(bc[1])[n], bc[2]) = Expected(bc[1], n, bc[2])

C14_Witness ==
    /\ Corrected /\ args.mode = "one" /\ args.scen = 2
    /\ grid.west_edge /\ grid.south_edge /\ grid.north_edge
    /\ grid.njc = MaxN
    /\ \E c \in LineCells("west", js(grid)) :
          /\ <<"west", c>> \in CornerEndCells
          /\ c \in Region(self.stencil[CopyBack("west", "lower")])
          /\ At(ve[1], c) # PrepValue("west", 1, c)
    /\ \E c \in LineCells("west", je(grid)) :
          /\ c \in Region(self.stencil[CopyBack("west", "upper")])
          /\ At(ve[1], c) # PrepValue("west", 1, c)

\* ---- C15 ------------------------------------------------------------------
\* C15: whatever an earlier call left in ue, ve, ut, vt, the buffers after
\* Prep and after the Correction stage and the increments a call adds to u
\* and v are those that follow from the arguments of this call and the setup
\* alone; so a call repeated with the same arguments adds the same increments.
C15_NoStateAcrossCalls ==
    /\ Len(log) = 1 =>
          \A n \in 1..3, c \in PrepCells :
             /\ At(ue[n], c) = PrepValue("south", n, c)
             /\ At(ve[n], c) = PrepValue("west", n, c)
    /\ pc = "_update_uwind_stencil" =>
          \A n \in 1..3, c \in PrepCells :
             /\ At(ue[n], c) = Expected("south", n, c)
             /\ At(ve[n], c) = Expected("west", n, c)
    /\ pc = "done" =>
          /\ \A c \in Cells(grid) :
                At(u, c) - At(pre.u, c) = IF c \in UCells THEN ExpectedDu(c) ELSE 0
          /\ \A c \in Cells(grid) :
                At(v, c) - At(pre.v, c) = IF c \in VCells THEN ExpectedDv(c) ELSE 0

C15_Witness ==
    /\ pc = "done"
    /\ prev # NoCall /\ prev.scen = 2 /\ prev.mode = "one"
    /\ args.scen = 1 /\ args.mode = "mixed"
    /\ \A b \in {"west", "east", "south"}, h \in Halves : InLog(CopyBack(b, h))
    /\ \E c \in UCells : At(u, c) # At(pre.u, c)

\* ---- C16 ------------------------------------------------------------------
\* C16: when a blend of a boundary is invoked no copy-back of that boundary
\* has run, every cell of the primary field it reads (shifted neighbour
\* included) holds the value Prep wrote, and the temporary it leaves is the
\* blend of Prep values alone.
C16_BlendsReadPrepValues ==
    \A b \in Side, h \in Halves :
       /\ pc = Blend(b, h) =>
             /\ \A k \in Halves : ~InLog(CopyBack(b, k))
             /\ \A n \in 1..3, c \in ReadCells(pc) :
                   At(Primary(b)[n], c) = PrepValue(b, n, c)
       /\ JustBlended(b, h) =>
             \A n \in 1..3, c \in Region(self.stencil[Blend(b, h)]) :
                At(Temporary(b)[n], c) =
                   BoundaryWeight(b, c) * PrepValue(b, n,
                         TangShift(b, c, FormulaShift(self.stencil[Blend(b, h)].func)))
                     + (1 - BoundaryWeight(b, c)) * PrepValue(b, n, c)

C16_Witness ==
    /\ pc = Blend("west", "upper") /\ InLog(Blend("west", "lower"))
    /\ args.mode = "one" /\ args.scen = 2
    /\ \E c \in ReadCells(pc) :
          /\ c[2] = self._jm2
          /\ c \in Region(self.stencil[Blend("west", "lower")])
    /\ \E c \in ReadCells(Blend("west", "lower")) :
          /\ c[2] = self._jm2 + 1
          /\ c \in Region(self.stencil[pc])

\* ---- C17 ------------------------------------------------------------------
\* cell c lies on the line of boundary b, within the tangential range of the tile
OnLine(b, c) ==
    /\ c[3] \in 0..(grid.npz - 1)
    /\ Tang(b, c) \in TangRange(b)
    /\ (IF b \in WestEast THEN c[1] ELSE c[2]) = LineIndex(b)

\* the cells of the line of boundary b over the tangential range of the tile
BoundaryLine(b) == {c \in Cells(grid) : OnLine(b, c)}

\* cell c lies on the line of an adjacent boundary among those of bs
OnAdjacentLine(bs, c) == \E b \in bs : Adjacent(b) /\ OnLine(b, c)

\* a step that is not Prep or a copy-back leaves ue, ve alone, and a copy-back
\* of boundary b changes them on the line of b alone
LineOfStep ==
    /\ (pc \in Members /\ pc \notin CopyBacks /\ pc # "_update_dwind_prep_stencil") =>
          (ue' = ue /\ ve' = ve)
    /\ pc \in CopyBacks =>
          \A n \in 1..3, c \in PrepCells :
             ~OnLine(BoundaryOf(pc), c) =>
                (At(ue'[n], c) = At(ue[n], c) /\ At(ve'[n], c) = At(ve[n], c))

\* where the Correction stage writes, and what the cells off the lines hold
OnlyBoundaryLine ==
    /\ pc \in Correction =>
          /\ Adjacent(BoundaryOf(pc))
          /\ \A c \in Region(self.stencil[pc]) : OnLine(BoundaryOf(pc), c)
    /\ (log # <<>> /\ log[Len(log)] \notin Blends) =>
          \A n \in 1..3, c \in PrepCells :
             /\ ~OnAdjacentLine(WestEast, c) => At(ve[n], c) = PrepValue("west", n, c)
             /\ ~OnAdjacentLine(SouthNorth, c) => At(ue[n], c) = PrepValue("south", n, c)
    /\ (pc = "idle" /\ grid.nic >= 1) => BoundaryLine("west") \cap BoundaryLine("east") = {}
    /\ (pc = "idle" /\ grid.njc >= 1) => BoundaryLine("south") \cap BoundaryLine("north") = {}

\* C17: the blends and copy-backs of a boundary write only cells of its line,
\* ve at i = is_ (west) or i = ie+1 (east) with j in [js..je], ue at j = js
\* (south) or j = je+1 (north) with i in [is_..ie]; after Prep, after every
\* copy-back and through the wind updates every other cell Prep wrote holds
\* Prep's value; and the west and east columns, and the south and north rows,
\* differ on a tile with a cell.
C17_OnlyBoundaryLine == []OnlyBoundaryLine /\ [][LineOfStep]_vars

C17_Witness ==
    /\ pc = "_update_uwind_stencil" /\ args.mode = "one" /\ args.scen = 2
    /\ grid.nic = 1 /\ grid.njc = MaxN
    /\ \A b \in {"west", "east"}, h \in Halves : InLog(CopyBack(b, h))
    /\ InLog(CopyBack("south", "upper")) /\ InLog(CopyBack("north", "upper"))
    /\ \A b \in Side : \E c \in BoundaryLine(b) :
          At(Primary(b)[1], c) # PrepValue(b, 1, c)

====
